---------------------------- MODULE Spec2Model ----------------------------
(***************************************************************************)
(* Model of 4_autoencoders/Autoencoders-Solution.ipynb: the MNIST          *)
(* denoising convolutional autoencoder notebook, cell by cell.             *)
(*                                                                         *)
(* Conventions.                                                            *)
(*  - A numpy array is a record [shape, data].  data[i] holds the first    *)
(*    PixelsTracked elements (row-major) of the i-th entry along axis 0;   *)
(*    every array operation of the notebook is elementwise or changes the  *)
(*    shape only, so the tracked elements evolve exactly as in the full    *)
(*    array.                                                               *)
(*  - A float is a rational <<numerator, denominator>>, denominator > 0.   *)
(*  - A symbolic Keras tensor is [shape, src, path]: its static shape      *)
(*    (batch axis = NoneDim), the Input it descends from and the layers    *)
(*    applied since.                                                       *)
(*  - A python name that is not bound yet holds the empty sequence.        *)
(***************************************************************************)
EXTENDS Integers, Sequences, FiniteSets, TLC

VARIABLES
    pc,             \* the cell (or the step of fit) to run next
    err,            \* "none", or the exception that aborted the run
    dataset,        \* what mnist.load_data() finds on storage
    x_train, y_train, x_test, y_test,
    image_num,      \* cell 7
    noise,          \* cell 13 (rebound by the second draw)
    noise_log,      \* every array np.random.normal has returned, in order
    x_train_noisy, x_test_noisy,
    image_index,    \* cell 15
    x,              \* the symbolic tensor the cells 19-25 thread through
    inputs, shape, latent, latent_inputs, outputs,
    layers,         \* the layer objects built so far, by identity (position)
    weights,        \* per layer object: the version of its parameter tensors
    encoder, decoder, autoencoder,
    epoch, index_array, batch_index,    \* position inside autoencoder.fit
    fed,            \* the (input, target) mini-batch last handed to a train step
    history,        \* per finished epoch: its batches and its validation pass
    x_decoded,      \* cell 29
    index           \* cell 31

vars == << pc, err, dataset, x_train, y_train, x_test, y_test, image_num,
           noise, noise_log, x_train_noisy, x_test_noisy, image_index,
           x, inputs, shape, latent, latent_inputs, outputs, layers, weights,
           encoder, decoder, autoencoder, epoch, index_array, batch_index,
           fed, history, x_decoded, index >>

dataVars == << x_train, y_train, x_test, y_test >>
noiseVars == << noise, noise_log, x_train_noisy, x_test_noisy >>
graphVars == << x, inputs, shape, latent, latent_inputs, outputs, layers >>
modelVars == << encoder, decoder, autoencoder >>
fitVars == << epoch, index_array, batch_index, fed, history >>

-----------------------------------------------------------------------------
(* Bounds of the model *)

\* elements of every image that are tracked
PixelsTracked == 2
\* the largest training set holds FullBatches full mini-batches and one more image
FullBatches == 2
\* the largest test set
MaxTest == 2
\* stored datasets differ by a seed in 0..MaxSeed
MaxSeed == 0
\* noise draws differ by a seed in 0..MaxNoiseSeed
MaxNoiseSeed == 1

-----------------------------------------------------------------------------
(* Program constants *)

image_size == 28
batch_size == 128
kernel_size == 3
latent_dim == 16
epochs == 2
\* the axis np.reshape is left to infer
InferAxis == -1
\* None, the unknown batch axis of a symbolic tensor
NoneDim == 0
\* the divisor of the normalisation
PixelScale == 255

input_shape == << image_size, image_size, 1 >>

-----------------------------------------------------------------------------
(* Arithmetic on floats *)

Rat(n, d) == << n, d >>
RatAdd(a, b) == << a[1] * b[2] + b[1] * a[2], a[2] * b[2] >>
RatLE(a, b) == a[1] * b[2] <= b[1] * a[2]
RatEq(a, b) == a[1] * b[2] = b[1] * a[2]
RatMax(a, b) == IF RatLE(a, b) THEN b ELSE a
RatMin(a, b) == IF RatLE(a, b) THEN a ELSE b

RECURSIVE Prod(_)
Prod(s) == IF s = << >> THEN 1 ELSE Head(s) * Prod(Tail(s))

Unbound == << >>
NoArray == [ shape |-> << 0 >>, data |-> << >> ]

\* the cells in the order the notebook runs them, fit unrolled into its steps
Order ==
    << "cell3", "cell7", "cell10", "cell13", "cell15", "cell19", "cell20",
       "cell22", "cell24", "cell25", "cell27", "fit_epoch", "fit_batch",
       "fit_validate", "cell29", "cell31", "done" >>

Rank(c) == CHOOSE r \in 1..Len(Order) : Order[r] = c

\* cell c is next and no exception has stopped the run
Running(c) == pc = c /\ err = "none"

\* every cell before c has finished
Finished(c) == Rank(pc) > Rank(c)

-----------------------------------------------------------------------------
(* numpy *)

\* len(a): the extent of axis 0
PyLen(a) == a.shape[1]

\* the element at 1-based row-major position f of array a
FlatAt(a, f) ==
    LET per == Prod(Tail(a.shape))
    IN  a.data[((f - 1) \div per) + 1][((f - 1) % per) + 1]

\* the shape np.reshape gives, one axis of newshape being -1
ReshapeShape(oldshape, newshape) ==
    LET size == Prod(oldshape)
        known == Prod(SelectSeq(newshape, LAMBDA d : d # InferAxis))
    IN  [ j \in 1..Len(newshape) |->
            IF newshape[j] = InferAxis THEN size \div known ELSE newshape[j] ]

\* np.reshape(a, newshape): same elements, same row-major order
NpReshape(a, newshape) ==
    LET s == ReshapeShape(a.shape, newshape)
        per == Prod(Tail(s))
    IN  [ shape |-> s,
          data |-> [ i \in 1..s[1] |->
                       [ k \in 1..PixelsTracked |-> FlatAt(a, (i - 1) * per + k) ] ] ]

\* a / k, elementwise true division
NpDivide(a, k) ==
    [ shape |-> a.shape,
      data |-> [ i \in 1..Len(a.data) |->
                   [ j \in 1..Len(a.data[i]) |-> Rat(a.data[i][j], k) ] ] ]

NpAddReversed(a, b) ==
    [ shape |-> a.shape,
      data |-> [ i \in 1..Len(a.data) |->
                   [ j \in 1..Len(a.data[i]) |->
                       RatAdd(a.data[i][j], b.data[Len(a.data) + 1 - i][j]) ] ] ]

\* a + b, elementwise, for arrays of one shape
NpAdd(a, b) ==
    [ shape |-> a.shape,
      data |-> [ i \in 1..Len(a.data) |->
                   [ j \in 1..Len(a.data[i]) |->
                       RatAdd(a.data[i][j], b.data[i][j]) ] ] ]

ClipUpperOnly(v, lo, hi) == RatMin(v, hi)

\* one element of np.clip: minimum(maximum(v, lo), hi)
Clip(v, lo, hi) == RatMin(RatMax(v, lo), hi)

\* np.clip(a, lo, hi): a new array, a itself is left alone
NpClip(a, lo, hi) ==
    [ shape |-> a.shape,
      data |-> [ i \in 1..Len(a.data) |->
                   [ j \in 1..Len(a.data[i]) |-> Clip(a.data[i][j], lo, hi) ] ] ]

\* values a draw of np.random.normal(loc=0.5, scale=0.5) may give, the far
\* tails included
NoiseValues ==
    << Rat(-3, 1), Rat(-1, 2), Rat(0, 1), Rat(1, 2), Rat(1, 1), Rat(9, 2) >>

\* np.random.normal(size=s): one array of shape s per seed
NpRandomNormal(s, nseed) ==
    [ shape |-> s,
      data |-> [ i \in 1..s[1] |->
                   [ k \in 1..PixelsTracked |->
                       NoiseValues[((nseed + i + k) % Len(NoiseValues)) + 1] ] ] ]

\* random.randint(a, b): a <= N <= b, both ends included
RandInt(a, b) == a..b

\* the draws explored: both ends of the range
Explored(a, b) == { a, b }

-----------------------------------------------------------------------------
(* The stored dataset *)

PixelPalette == << 0, 255, 128, 1, 254 >>

TrainSizes == { 1, batch_size, batch_size + 1, FullBatches * batch_size + 1 }
TestSizes == 1..MaxTest

Datasets ==
    [ seed : 0..MaxSeed, n_train : TrainSizes, n_test : TestSizes ]

\* images: uint8 arrays of shape (n, 28, 28); labels: digits
StoredImages(seed, n) ==
    [ shape |-> << n, image_size, image_size >>,
      data |-> [ i \in 1..n |->
                   [ k \in 1..PixelsTracked |->
                       PixelPalette[((seed + i + 2 * k) % Len(PixelPalette)) + 1] ] ] ]

StoredLabels(seed, n) ==
    [ shape |-> << n >>, data |-> [ i \in 1..n |-> (seed + i) % 10 ] ]

-----------------------------------------------------------------------------
(* Cells 3-15: load, display, prepare, add noise, display *)

\* (x_train, y_train), (x_test, y_test) = mnist.load_data()
Cell3_Load ==
    /\ Running("cell3")
    /\ x_train' = StoredImages(dataset.seed, dataset.n_train)
    /\ y_train' = StoredLabels(dataset.seed, dataset.n_train)
    /\ x_test' = StoredImages(dataset.seed + 1, dataset.n_test)
    /\ y_test' = StoredLabels(dataset.seed + 1, dataset.n_test)
    /\ pc' = "cell7"
    /\ UNCHANGED << err, dataset, image_num, noiseVars, image_index, graphVars,
                    weights, modelVars, fitVars, x_decoded, index >>

\* image_num = random.randint(0, len(x_train)); x_train[image_num]; y_train[image_num]
Cell7_Display ==
    /\ Running("cell7")
    /\ \E i \in RandInt(0, PyLen(x_train)) :
         /\ i \in Explored(0, PyLen(x_train))
         /\ image_num' = << i >>
         /\ IF i < PyLen(x_train) /\ i < PyLen(y_train)
              THEN pc' = "cell10" /\ err' = err
              ELSE pc' = pc /\ err' = "IndexError"
    /\ UNCHANGED << dataset, dataVars, noiseVars, image_index, graphVars,
                    weights, modelVars, fitVars, x_decoded, index >>

PrepareScale256(a) ==
    NpDivide(NpReshape(a, << InferAxis, image_size, image_size, 1 >>), PixelScale + 1)

\* np.reshape(a, [-1, image_size, image_size, 1]) / 255
Prepare(a) ==
    NpDivide(NpReshape(a, << InferAxis, image_size, image_size, 1 >>), PixelScale)

Cell10_Prepare ==
    /\ Running("cell10")
    /\ x_train' = Prepare(x_train)
    /\ x_test' = Prepare(x_test)
    /\ pc' = "cell13"
    /\ UNCHANGED << err, dataset, y_train, y_test, image_num, noiseVars,
                    image_index, graphVars, weights, modelVars, fitVars,
                    x_decoded, index >>

Zero == Rat(0, 1)
One == Rat(1, 1)

Cell13_AddNoiseInPlace ==
    /\ Running("cell13")
    /\ \E s1 \in 0..MaxNoiseSeed, s2 \in 0..MaxNoiseSeed :
         LET n1 == NpRandomNormal(x_train.shape, s1)
             n2 == NpRandomNormal(x_test.shape, s2)
         IN  /\ noise' = n2
             /\ noise_log' = noise_log \o << n1, n2 >>
             /\ x_train_noisy' = NpClip(NpAdd(x_train, n1), Zero, One)
             /\ x_test_noisy' = NpClip(NpAdd(x_test, n2), Zero, One)
             /\ x_train' = x_train_noisy'
             /\ x_test' = x_test_noisy'
    /\ pc' = "cell15"
    /\ UNCHANGED << err, dataset, y_train, y_test, image_num, image_index,
                    graphVars, weights, modelVars, fitVars, x_decoded, index >>

\* noise, sum and clip of both sets; the clean arrays are only read
Cell13_AddNoise ==
    /\ Running("cell13")
    /\ \E s1 \in 0..MaxNoiseSeed, s2 \in 0..MaxNoiseSeed :
         LET n1 == NpRandomNormal(x_train.shape, s1)
             n2 == NpRandomNormal(x_test.shape, s2)
         IN  /\ noise' = n2
             /\ noise_log' = noise_log \o << n1, n2 >>
             /\ x_train_noisy' = NpClip(NpAdd(x_train, n1), Zero, One)
             /\ x_test_noisy' = NpClip(NpAdd(x_test, n2), Zero, One)
    /\ pc' = "cell15"
    /\ UNCHANGED << err, dataset, dataVars, image_num, image_index, graphVars,
                    weights, modelVars, fitVars, x_decoded, index >>

\* image_index = random.randint(0, len(x_train_noisy)); x_train_noisy[image_index];
\* y_train[image_index]
Cell15_Display ==
    /\ Running("cell15")
    /\ \E i \in RandInt(0, PyLen(x_train_noisy)) :
         /\ i \in Explored(0, PyLen(x_train_noisy))
         /\ image_index' = << i >>
         /\ IF i < PyLen(x_train_noisy) /\ i < PyLen(y_train)
              THEN pc' = "cell19" /\ err' = err
              ELSE pc' = pc /\ err' = "IndexError"
    /\ UNCHANGED << dataset, dataVars, image_num, noiseVars, graphVars,
                    weights, modelVars, fitVars, x_decoded, index >>

-----------------------------------------------------------------------------
(* Keras: layers, shape inference, models *)

Conv2D(filters, kernel, strides, activation, padding) ==
    [ kind |-> "Conv2D", filters |-> filters, kernel_size |-> kernel,
      strides |-> strides, activation |-> activation, padding |-> padding,
      units |-> 0, target_shape |-> << >> ]

Conv2DTranspose(filters, kernel, strides, activation, padding) ==
    [ kind |-> "Conv2DTranspose", filters |-> filters, kernel_size |-> kernel,
      strides |-> strides, activation |-> activation, padding |-> padding,
      units |-> 0, target_shape |-> << >> ]

Flatten ==
    [ kind |-> "Flatten", filters |-> 0, kernel_size |-> 0, strides |-> 0,
      activation |-> "linear", padding |-> "", units |-> 0,
      target_shape |-> << >> ]

Dense(units) ==
    [ kind |-> "Dense", filters |-> 0, kernel_size |-> 0, strides |-> 0,
      activation |-> "linear", padding |-> "", units |-> units,
      target_shape |-> << >> ]

Reshape(target) ==
    [ kind |-> "Reshape", filters |-> 0, kernel_size |-> 0, strides |-> 0,
      activation |-> "linear", padding |-> "", units |-> 0,
      target_shape |-> target ]

Activation(fn) ==
    [ kind |-> "Activation", filters |-> 0, kernel_size |-> 0, strides |-> 0,
      activation |-> fn, padding |-> "", units |-> 0, target_shape |-> << >> ]

\* the layers that own parameter tensors
HasParams(cfg) == cfg.kind \in { "Conv2D", "Conv2DTranspose", "Dense" }

Max(a, b) == IF a >= b THEN a ELSE b

ConvOutputLengthValid(n, kernel, padding, stride) ==
    ((n - kernel + 1) + stride - 1) \div stride

\* the extent a convolution gives an axis of extent n
ConvOutputLength(n, kernel, padding, stride) ==
    LET full == IF padding = "same" THEN n ELSE n - kernel + 1
    IN  (full + stride - 1) \div stride

DeconvLengthValid(n, stride, kernel, padding) ==
    n * stride + Max(kernel - stride, 0)

\* the extent a transposed convolution gives an axis of extent n
DeconvLength(n, stride, kernel, padding) ==
    IF padding = "same" THEN n * stride
    ELSE n * stride + Max(kernel - stride, 0)

\* the static output shape of a layer on an input of static shape s
OutputShape(cfg, s) ==
    CASE cfg.kind = "Conv2D" ->
           << s[1],
              ConvOutputLength(s[2], cfg.kernel_size, cfg.padding, cfg.strides),
              ConvOutputLength(s[3], cfg.kernel_size, cfg.padding, cfg.strides),
              cfg.filters >>
      [] cfg.kind = "Conv2DTranspose" ->
           << s[1],
              DeconvLength(s[2], cfg.strides, cfg.kernel_size, cfg.padding),
              DeconvLength(s[3], cfg.strides, cfg.kernel_size, cfg.padding),
              cfg.filters >>
      [] cfg.kind = "Flatten" -> << s[1], Prod(Tail(s)) >>
      [] cfg.kind = "Dense" -> [ s EXCEPT ![Len(s)] = cfg.units ]
      [] cfg.kind = "Reshape" -> << s[1] >> \o cfg.target_shape
      [] OTHER -> s

\* a layer can be applied to an input of static shape s
Accepts(cfg, s) ==
    cfg.kind = "Reshape" => Prod(cfg.target_shape) = Prod(Tail(s))

\* Input(shape=sh, name=n)
Input(sh, n) ==
    [ shape |-> << NoneDim >> \o sh, src |-> n, path |-> << >>, models |-> << >> ]

\* layer(t): a new layer object appended to the heap ls, and its output tensor
Call(ls, cfg, t) ==
    [ layers |-> Append(ls, [ cfg |-> cfg, input_shape |-> t.shape,
                              output_shape |-> OutputShape(cfg, t.shape) ]),
      tensor |-> [ shape |-> OutputShape(cfg, t.shape), src |-> t.src,
                   path |-> Append(t.path, Len(ls) + 1), models |-> t.models ] ]

\* K.int_shape(t)
KIntShape(t) == t.shape

\* Model(ins, outs, name=n) over a graph of layers
Model(ins, outs, n) ==
    [ name |-> n, input_shape |-> ins.shape, output_shape |-> outs.shape,
      layers |-> outs.path, submodels |-> outs.models,
      loss |-> "", optimizer |-> "" ]

\* model(t): the model applied as one layer; its layer objects are referred
\* to through the model, not copied
CallModel(m, t) ==
    [ shape |-> << t.shape[1] >> \o Tail(m.output_shape), src |-> t.src,
      path |-> t.path, models |-> Append(t.models, m.name) ]

NoTensor == [ shape |-> << >>, src |-> "", path |-> << >>, models |-> << >> ]
NoModel ==
    [ name |-> "", input_shape |-> << >>, output_shape |-> << >>,
      layers |-> << >>, submodels |-> << >>, loss |-> "", optimizer |-> "" ]

\* a weight version for every layer of heap ls the version list w lacks
Initialized(w, ls) == w \o [ i \in 1..(Len(ls) - Len(w)) |-> 0 ]

-----------------------------------------------------------------------------
(* Cells 19-25: the encoder and the decoder *)

\* inputs = Input(...); two stride-2 'same' convolutions, 32 then 64 filters
Cell19_EncoderConv ==
    /\ Running("cell19")
    /\ LET i0 == Input(input_shape, "encoder_input")
           c1 == Call(layers, Conv2D(32, kernel_size, 2, "relu", "same"), i0)
           c2 == Call(c1.layers, Conv2D(64, kernel_size, 2, "relu", "same"),
                      c1.tensor)
       IN  /\ inputs' = i0
           /\ x' = c2.tensor
           /\ layers' = c2.layers
           /\ weights' = Initialized(weights, c2.layers)
    /\ pc' = "cell20"
    /\ UNCHANGED << err, dataset, dataVars, image_num, noiseVars, image_index,
                    shape, latent, latent_inputs, outputs, modelVars, fitVars,
                    x_decoded, index >>

\* shape = K.int_shape(x); Flatten; Dense(latent_dim); encoder = Model(inputs, latent)
Cell20_Encoder ==
    /\ Running("cell20")
    /\ LET f == Call(layers, Flatten, x)
           d == Call(f.layers, Dense(latent_dim), f.tensor)
       IN  /\ shape' = KIntShape(x)
           /\ x' = f.tensor
           /\ latent' = d.tensor
           /\ layers' = d.layers
           /\ weights' = Initialized(weights, d.layers)
           /\ d.tensor.src = inputs.src
           /\ encoder' = Model(inputs, d.tensor, "encoder")
    /\ pc' = "cell22"
    /\ UNCHANGED << err, dataset, dataVars, image_num, noiseVars, image_index,
                    inputs, latent_inputs, outputs, decoder, autoencoder,
                    fitVars, x_decoded, index >>

\* latent_inputs = Input((latent_dim,)); Dense(shape[1]*shape[2]*shape[3]);
\* Reshape((shape[1], shape[2], shape[3]))
Cell22_DecoderInput ==
    /\ Running("cell22")
    /\ LET i0 == Input(<< latent_dim >>, "decoder_input")
           d == Call(layers, Dense(shape[2] * shape[3] * shape[4]), i0)
           target == Reshape(<< shape[2], shape[3], shape[4] >>)
           r == Call(d.layers, target, d.tensor)
       IN  /\ Accepts(target, d.tensor.shape)
           /\ latent_inputs' = i0
           /\ x' = r.tensor
           /\ layers' = r.layers
           /\ weights' = Initialized(weights, r.layers)
    /\ pc' = "cell24"
    /\ UNCHANGED << err, dataset, dataVars, image_num, noiseVars, image_index,
                    inputs, shape, latent, outputs, modelVars, fitVars,
                    x_decoded, index >>

\* two stride-2 'same' transposed convolutions, 64 then 32 filters
Cell24_DecoderConv ==
    /\ Running("cell24")
    /\ LET t1 == Call(layers,
                      Conv2DTranspose(64, kernel_size, 2, "relu", "same"), x)
           t2 == Call(t1.layers,
                      Conv2DTranspose(32, kernel_size, 2, "relu", "same"),
                      t1.tensor)
       IN  /\ x' = t2.tensor
           /\ layers' = t2.layers
           /\ weights' = Initialized(weights, t2.layers)
    /\ pc' = "cell25"
    /\ UNCHANGED << err, dataset, dataVars, image_num, noiseVars, image_index,
                    inputs, shape, latent, latent_inputs, outputs, modelVars,
                    fitVars, x_decoded, index >>

\* Conv2DTranspose(filters=1, padding='same') with the default stride 1;
\* Activation('sigmoid'); decoder = Model(latent_inputs, outputs)
Cell25_Decoder ==
    /\ Running("cell25")
    /\ LET t3 == Call(layers,
                      Conv2DTranspose(1, kernel_size, 1, "linear", "same"), x)
           a == Call(t3.layers, Activation("sigmoid"), t3.tensor)
       IN  /\ x' = t3.tensor
           /\ outputs' = a.tensor
           /\ layers' = a.layers
           /\ weights' = Initialized(weights, a.layers)
           /\ a.tensor.src = latent_inputs.src
           /\ decoder' = Model(latent_inputs, a.tensor, "decoder")
    /\ pc' = "cell27"
    /\ UNCHANGED << err, dataset, dataVars, image_num, noiseVars, image_index,
                    inputs, shape, latent, latent_inputs, encoder, autoencoder,
                    fitVars, x_decoded, index >>

-----------------------------------------------------------------------------
(* Cell 27: the autoencoder and its training *)

ModelByName(n) == IF n = "encoder" THEN encoder ELSE decoder

RECURSIVE SubLayers(_)
SubLayers(names) ==
    IF names = << >> THEN << >>
    ELSE ModelByName(Head(names)).layers \o SubLayers(Tail(names))

\* the layer objects a model computes with, in order
FlatLayers(m) == m.layers \o SubLayers(m.submodels)

\* the layer objects whose parameters a train step of model m updates
Trainable(m) ==
    { FlatLayers(m)[k] : k \in 1..Len(FlatLayers(m)) } \cap
        { id \in 1..Len(layers) : HasParams(layers[id].cfg) }

\* the value a chain of layer objects computes from v: v followed by every
\* layer applied, each with the parameters it holds now
RECURSIVE Through(_, _)
Through(ids, v) ==
    IF ids = << >> THEN v
    ELSE Through(Tail(ids),
                 Append(v, << layers[Head(ids)].cfg.kind, weights[Head(ids)] >>))

\* model(v), model.predict(v)
Forward(m, v) == Through(FlatLayers(m), v)

\* the i-th sample of an array, as an input value
Sample(name, i) == << << name, i >> >>

\* model.compile(loss=..., optimizer=...)
Compile(m, loss, optimizer) ==
    [ m EXCEPT !.loss = loss, !.optimizer = optimizer ]

\* make_batches(size, bs): the (start, end) slices of one epoch
MakeBatches(size, bs) ==
    [ b \in 1..((size + bs - 1) \div bs) |->
        << (b - 1) * bs, IF b * bs < size THEN b * bs ELSE size >> ]

\* orders np.random.shuffle may leave the sample indices in: as they were, reversed
Shuffles(n) == { [ k \in 1..n |-> k - 1 ], [ k \in 1..n |-> n - k ] }

Cell27_BuildCloned ==
    /\ Running("cell27")
    /\ LET own == FlatLayers(encoder) \o FlatLayers(decoder)
           ae == [ name |-> "autoencoder", input_shape |-> inputs.shape,
                   output_shape |-> << inputs.shape[1] >> \o Tail(decoder.output_shape),
                   layers |-> [ k \in 1..Len(own) |-> Len(layers) + own[k] ],
                   submodels |-> << >>, loss |-> "", optimizer |-> "" ]
       IN  /\ autoencoder' = Compile(ae, "mse", "adam")
           /\ layers' = layers \o layers
           /\ weights' = weights \o weights
    /\ epoch' = 0
    /\ history' = << >>
    /\ pc' = "fit_epoch"
    /\ UNCHANGED << err, dataset, dataVars, image_num, noiseVars, image_index,
                    x, inputs, shape, latent, latent_inputs, outputs,
                    encoder, decoder, index_array, batch_index,
                    fed, x_decoded, index >>

\* autoencoder = Model(inputs, decoder(encoder(inputs))); compile; fit is entered
Cell27_Build ==
    /\ Running("cell27")
    /\ Tail(inputs.shape) = Tail(encoder.input_shape)
    /\ Tail(encoder.output_shape) = Tail(decoder.input_shape)
    /\ LET ae == Model(inputs, CallModel(decoder, CallModel(encoder, inputs)),
                       "autoencoder")
       IN  autoencoder' = Compile(ae, "mse", "adam")
    /\ Tail(x_train_noisy.shape) = Tail(autoencoder'.input_shape)
    /\ Tail(x_train.shape) = Tail(autoencoder'.output_shape)
    /\ PyLen(x_train_noisy) = PyLen(x_train)
    /\ epoch' = 0
    /\ history' = << >>
    /\ pc' = "fit_epoch"
    /\ UNCHANGED << err, dataset, dataVars, image_num, noiseVars, image_index,
                    graphVars, weights, encoder, decoder, index_array,
                    batch_index, fed, x_decoded, index >>

FitEpochBeginOneMore ==
    /\ Running("fit_epoch")
    /\ epoch <= epochs
    /\ \E perm \in Shuffles(PyLen(x_train_noisy)) : index_array' = perm
    /\ batch_index' = 0
    /\ history' = Append(history, [ batches |-> << >>, validations |-> 0,
                                    val_samples |-> 0 ])
    /\ pc' = "fit_batch"
    /\ UNCHANGED << err, dataset, dataVars, image_num, noiseVars, image_index,
                    graphVars, weights, modelVars, epoch, fed, x_decoded, index >>

\* for epoch in range(epochs): shuffle the sample indices
FitEpochBegin ==
    /\ Running("fit_epoch")
    /\ epoch < epochs
    /\ \E perm \in Shuffles(PyLen(x_train_noisy)) : index_array' = perm
    /\ batch_index' = 0
    /\ history' = Append(history, [ batches |-> << >>, validations |-> 0,
                                    val_samples |-> 0 ])
    /\ pc' = "fit_batch"
    /\ UNCHANGED << err, dataset, dataVars, image_num, noiseVars, image_index,
                    graphVars, weights, modelVars, epoch, fed, x_decoded, index >>

\* one train step: the next slice of the shuffled indices selects the inputs
\* from x_train_noisy and the targets from x_train; the optimizer updates the
\* parameters of every trainable layer of the autoencoder
FitTrainBatch ==
    /\ Running("fit_batch")
    /\ LET batches == MakeBatches(PyLen(x_train_noisy), batch_size)
           b == batches[batch_index + 1]
           ids == SubSeq(index_array, b[1] + 1, b[2])
       IN  /\ fed' = [ ids |-> ids,
                       x |-> [ k \in 1..Len(ids) |-> x_train_noisy.data[ids[k] + 1] ],
                       y |-> [ k \in 1..Len(ids) |-> x_train.data[ids[k] + 1] ] ]
           /\ history' = [ history EXCEPT ![Len(history)].batches = Append(@, ids) ]
           /\ pc' = IF batch_index + 1 < Len(batches) THEN "fit_batch"
                    ELSE "fit_validate"
    /\ weights' = [ id \in 1..Len(weights) |->
                      IF id \in Trainable(autoencoder) THEN weights[id] + 1
                      ELSE weights[id] ]
    /\ batch_index' = batch_index + 1
    /\ UNCHANGED << err, dataset, dataVars, image_num, noiseVars, image_index,
                    graphVars, modelVars, epoch, index_array, x_decoded, index >>

FitValidateTraining ==
    /\ Running("fit_validate")
    /\ history' = [ history EXCEPT ![Len(history)].validations = @ + 1,
                                   ![Len(history)].val_samples = PyLen(x_test_noisy) ]
    /\ weights' = [ id \in 1..Len(weights) |->
                      IF id \in Trainable(autoencoder) THEN weights[id] + 1
                      ELSE weights[id] ]
    /\ epoch' = epoch + 1
    /\ pc' = "fit_epoch"
    /\ UNCHANGED << err, dataset, dataVars, image_num, noiseVars, image_index,
                    graphVars, modelVars, index_array, batch_index, fed,
                    x_decoded, index >>

\* the end of an epoch: the loss on (x_test_noisy, x_test) is evaluated, no
\* parameter is updated
FitValidate ==
    /\ Running("fit_validate")
    /\ Tail(x_test_noisy.shape) = Tail(autoencoder.input_shape)
    /\ PyLen(x_test_noisy) = PyLen(x_test)
    /\ history' = [ history EXCEPT ![Len(history)].validations = @ + 1,
                                   ![Len(history)].val_samples = PyLen(x_test_noisy) ]
    /\ epoch' = epoch + 1
    /\ pc' = "fit_epoch"
    /\ UNCHANGED << err, dataset, dataVars, image_num, noiseVars, image_index,
                    graphVars, weights, modelVars, index_array, batch_index,
                    fed, x_decoded, index >>

\* fit returns once the last epoch is over
FitEnd ==
    /\ Running("fit_epoch")
    /\ epoch >= epochs
    /\ pc' = "cell29"
    /\ UNCHANGED << err, dataset, dataVars, image_num, noiseVars, image_index,
                    graphVars, weights, modelVars, fitVars, x_decoded, index >>

-----------------------------------------------------------------------------
(* Cells 29-31: inference and display *)

\* x_decoded = autoencoder.predict(x_test_noisy)
Cell29_Predict ==
    /\ Running("cell29")
    /\ Tail(x_test_noisy.shape) = Tail(autoencoder.input_shape)
    /\ x_decoded' =
         [ shape |-> << PyLen(x_test_noisy) >> \o Tail(autoencoder.output_shape),
           data |-> [ i \in 1..PyLen(x_test_noisy) |->
                        Forward(autoencoder, Sample("x_test_noisy", i)) ] ]
    /\ pc' = "cell31"
    /\ UNCHANGED << err, dataset, dataVars, image_num, noiseVars, image_index,
                    graphVars, weights, modelVars, fitVars, index >>

\* index = random.randint(0, len(x_test_noisy)); x_test_noisy[index]; x_decoded[index]
Cell31_Display ==
    /\ Running("cell31")
    /\ \E i \in RandInt(0, PyLen(x_test_noisy)) :
         /\ i \in Explored(0, PyLen(x_test_noisy))
         /\ index' = << i >>
         /\ IF i < PyLen(x_test_noisy) /\ i < PyLen(x_decoded)
              THEN pc' = "done" /\ err' = err
              ELSE pc' = pc /\ err' = "IndexError"
    /\ UNCHANGED << dataset, dataVars, image_num, noiseVars, image_index,
                    graphVars, weights, modelVars, fitVars, x_decoded >>

-----------------------------------------------------------------------------
(* The notebook, run from a fresh kernel *)

Init ==
    /\ pc = "cell3"
    /\ err = "none"
    /\ dataset \in Datasets
    /\ x_train = NoArray /\ y_train = NoArray
    /\ x_test = NoArray /\ y_test = NoArray
    /\ image_num = Unbound /\ image_index = Unbound /\ index = Unbound
    /\ noise = NoArray /\ noise_log = << >>
    /\ x_train_noisy = NoArray /\ x_test_noisy = NoArray
    /\ x = NoTensor /\ inputs = NoTensor /\ latent = NoTensor
    /\ latent_inputs = NoTensor /\ outputs = NoTensor
    /\ shape = Unbound
    /\ layers = << >> /\ weights = << >>
    /\ encoder = NoModel /\ decoder = NoModel /\ autoencoder = NoModel
    /\ epoch = 0 /\ index_array = << >> /\ batch_index = 0
    /\ fed = [ ids |-> << >>, x |-> << >>, y |-> << >> ]
    /\ history = << >>
    /\ x_decoded = NoArray

FitStep == FitEpochBegin \/ FitTrainBatch \/ FitValidate \/ FitEnd

Next ==
    \/ Cell3_Load
    \/ Cell7_Display
    \/ Cell10_Prepare
    \/ Cell13_AddNoise
    \/ Cell15_Display
    \/ Cell19_EncoderConv
    \/ Cell20_Encoder
    \/ Cell22_DecoderInput
    \/ Cell24_DecoderConv
    \/ Cell25_Decoder
    \/ Cell27_Build
    \/ FitStep
    \/ Cell29_Predict
    \/ Cell31_Display

Spec == Init /\ [][Next]_vars

\* a cell that has begun runs to its end: nothing suspends or cancels fit
FairSpec == Spec /\ WF_vars(FitStep)

-----------------------------------------------------------------------------
(* Properties *)

\* the arrays the notebook starts from and the noise it drew
RawTrain == StoredImages(dataset.seed, dataset.n_train)
RawTest == StoredImages(dataset.seed + 1, dataset.n_test)
TrainNoise == noise_log[1]
TestNoise == noise_log[2]

Elements(a) == { << i, j >> : i \in 1..Len(a.data), j \in 1..PixelsTracked }

TransposedLayers(m) ==
    { m.layers[k] : k \in { n \in 1..Len(m.layers) :
                              layers[m.layers[n]].cfg.kind = "Conv2DTranspose" } }

\* C1: the decoder maps a latent vector of length 16 to shape (28,28,1): it
\* starts from the shape captured before the encoder's Flatten, every
\* transposed convolution multiplies height and width by its stride (2, 2,
\* then 1), and so the autoencoder's output, and every array predict
\* returns, has the shape of its input.
C1_DecoderRestoresResolution ==
    /\ Finished("cell25") =>
         /\ decoder.input_shape = << NoneDim, latent_dim >>
         /\ decoder.output_shape = << NoneDim, image_size, image_size, 1 >>
         /\ layers[decoder.layers[2]].output_shape = shape
         /\ \A id \in TransposedLayers(decoder) :
              /\ layers[id].output_shape[2] =
                   layers[id].cfg.strides * layers[id].input_shape[2]
              /\ layers[id].output_shape[3] =
                   layers[id].cfg.strides * layers[id].input_shape[3]
         /\ [ k \in 1..3 |-> layers[decoder.layers[k + 2]].cfg.strides ] = << 2, 2, 1 >>
    /\ Finished("cell27") => autoencoder.output_shape = autoencoder.input_shape
    /\ Finished("cell29") => x_decoded.shape = x_test_noisy.shape

C1_Witness ==
    /\ Finished("cell29")
    /\ PyLen(x_decoded) > 1
    /\ Cardinality(TransposedLayers(decoder)) = 3

\* C2: the encoder maps a (28,28,1) image to 16 values: the two stride-2
\* 'same' convolutions give 14x14x32 and 7x7x64, the captured shape is
\* (None,7,7,64), Flatten gives 3136 values and the Dense layer 16.
C2_EncoderLatentLength ==
    Finished("cell20") =>
        /\ encoder.input_shape = << NoneDim, image_size, image_size, 1 >>
        /\ layers[encoder.layers[1]].output_shape = << NoneDim, 14, 14, 32 >>
        /\ layers[encoder.layers[2]].output_shape = << NoneDim, 7, 7, 64 >>
        /\ shape = << NoneDim, 7, 7, 64 >>
        /\ layers[encoder.layers[3]].output_shape = << NoneDim, 3136 >>
        /\ layers[encoder.layers[4]].output_shape = << NoneDim, latent_dim >>
        /\ encoder.output_shape = << NoneDim, 16 >>

C2_Witness ==
    /\ pc = "cell22"
    /\ Len(encoder.layers) = 4
    /\ latent.shape = << NoneDim, latent_dim >>

\* the noisy array n is the clean array c plus the noise z, saturated to [0,1]
Saturated(n, c, z) ==
    \A e \in Elements(n) :
        LET v == n.data[e[1]][e[2]]
            sum == RatAdd(c.data[e[1]][e[2]], z.data[e[1]][e[2]])
        IN  /\ RatLE(Zero, v) /\ RatLE(v, One)
            /\ ~RatLE(sum, One) => RatEq(v, One)
            /\ ~RatLE(Zero, sum) => RatEq(v, Zero)

\* C3: when noise injection has run, every element of x_train_noisy and of
\* x_test_noisy lies in [0,1]: a sum above 1 has become 1, a sum below 0 has
\* become 0, whatever the noise drawn.
C3_NoisyWithinUnitInterval ==
    pc = "cell15" =>
        /\ Saturated(x_train_noisy, x_train, TrainNoise)
        /\ Saturated(x_test_noisy, x_test, TestNoise)

C3_Witness ==
    /\ pc = "cell15" /\ err = "none"
    /\ \E e \in Elements(x_train_noisy) :
         ~RatLE(RatAdd(x_train.data[e[1]][e[2]], TrainNoise.data[e[1]][e[2]]), One)
    /\ \E e \in Elements(x_train_noisy) :
         ~RatLE(Zero, RatAdd(x_train.data[e[1]][e[2]], TrainNoise.data[e[1]][e[2]]))

\* the prepared array p is the raw array r, one channel axis added, every
\* element divided by 255
Normalized(p, r) ==
    /\ p.shape = << PyLen(r), image_size, image_size, 1 >>
    /\ Len(p.data) = PyLen(r)
    /\ \A e \in Elements(p) :
         /\ RatEq(p.data[e[1]][e[2]], Rat(r.data[e[1]][e[2]], 255))
         /\ RatLE(Zero, p.data[e[1]][e[2]])
         /\ RatLE(p.data[e[1]][e[2]], One)

\* C4: when it has run, data preparation has turned the raw (N,28,28) arrays of pixels 0..255 into
\* (N,28,28,1) arrays whose elements are the raw pixels divided by 255, in
\* [0,1], with the same N and in the same order.
C4_PreparedIsRawOver255 ==
    pc = "cell13" =>
        /\ Normalized(x_train, RawTrain)
        /\ Normalized(x_test, RawTest)

C4_Witness ==
    /\ pc = "cell13"
    /\ PyLen(x_train) > batch_size
    /\ \E e \in Elements(x_train) : RatEq(x_train.data[e[1]][e[2]], One)
    /\ \E e \in Elements(x_train) : RatEq(x_train.data[e[1]][e[2]], Zero)

\* the noisy array n pairs index by index with the clean array c under noise z
Paired(n, c, z) ==
    /\ n.shape = c.shape
    /\ Len(n.data) = Len(c.data)
    /\ \A e \in Elements(n) :
         RatEq(n.data[e[1]][e[2]],
               Clip(RatAdd(c.data[e[1]][e[2]], z.data[e[1]][e[2]]), Zero, One))

\* C5: noise injection keeps shape and order: the noisy arrays have the
\* shapes of the clean ones, the noisy image at i is clip(clean image at i +
\* noise at i), and the input and the target a train step is handed at one
\* position belong to one image.
C5_NoisyPairsWithClean ==
    /\ pc = "cell15" =>
        /\ Paired(x_train_noisy, x_train, TrainNoise)
        /\ Paired(x_test_noisy, x_test, TestNoise)
    /\ pc \in { "fit_batch", "fit_validate" } =>
        \A k \in 1..Len(fed.ids) : \A j \in 1..PixelsTracked :
             RatEq(fed.x[k][j],
                   Clip(RatAdd(fed.y[k][j], TrainNoise.data[fed.ids[k] + 1][j]),
                        Zero, One))

C5_Witness ==
    /\ pc = "fit_validate"
    /\ Len(fed.ids) > 1
    /\ fed.ids[1] > fed.ids[2]
    /\ fed.x # fed.y

\* C6: noise injection leaves x_train and x_test as data preparation made
\* them, and the targets of every train step and of every validation pass
\* are those clean arrays.
C6_CleanArraysUntouched ==
    [][ /\ Running("cell13") => x_train' = x_train /\ x_test' = x_test
        /\ Running("fit_batch") =>
             LET clean == Prepare(RawTrain)
             IN  \A k \in 1..Len(fed'.ids) :
                     fed'.y[k] = clean.data[fed'.ids[k] + 1]
        /\ Running("fit_validate") => x_test = Prepare(RawTest) ]_vars

C6_Witness ==
    /\ pc = "cell29"
    /\ \E k \in 1..Len(fed.ids) : fed.y[k] # fed.x[k]
    /\ history[epochs].validations = 1

RECURSIVE Concat(_)
Concat(ss) == IF ss = << >> THEN << >> ELSE Head(ss) \o Concat(Tail(ss))

\* the batches of one epoch cover the n samples once each, at most
\* batch_size at a time, and one validation pass over the test pairs follows
EpochComplete(e, n) ==
    LET all == Concat(e.batches)
    IN  /\ \A b \in 1..Len(e.batches) :
              Len(e.batches[b]) >= 1 /\ Len(e.batches[b]) <= batch_size
        /\ Len(all) = n
        /\ { all[k] : k \in 1..Len(all) } = 0..(n - 1)
        /\ e.validations = 1
        /\ e.val_samples = PyLen(x_test)

\* C7: fit, once entered, returns, and when it has returned exactly 2 epochs
\* have run, each over mini-batches of at most 128 samples that cover every
\* training sample exactly once, each followed by one validation pass.
C7_FitRunsTwoEpochs ==
    /\ [](Len(history) <= 2)
    /\ [](Finished("fit_validate") =>
            /\ Len(history) = 2
            /\ epoch = 2
            /\ \A e \in 1..Len(history) :
                 EpochComplete(history[e], PyLen(x_train)))
    /\ (Running("fit_epoch") ~> Finished("fit_validate"))

C7_Witness ==
    /\ pc = "cell29"
    /\ Len(history[1].batches) > 2
    /\ Len(history[2].batches[Len(history[2].batches)]) = 1

\* C8: once both sub-models are built, the parameters change in train steps
\* only: the validation pass at the end of an epoch and predict leave every
\* weight as it was.
C8_WeightsChangeOnlyInTrainSteps ==
    [][ /\ (Running("fit_validate") \/ Running("cell29")) => weights' = weights
        /\ (Finished("cell25") /\ weights' # weights) => Running("fit_batch") ]_vars

C8_Witness ==
    /\ pc = "cell31"
    /\ history[1].validations = 1
    /\ weights[encoder.layers[1]] > epochs
    /\ PyLen(x_decoded) > 0

\* the parameters a model computes with, layer by layer
WeightsOf(m) == [ k \in 1..Len(FlatLayers(m)) |-> weights[FlatLayers(m)[k]] ]

\* C9: the autoencoder computes with the very layer objects of the encoder
\* and the decoder: after any number of train steps its weights are theirs,
\* autoencoder(v) = decoder(encoder(v)), and what predict returned is what
\* decoder(encoder(.)) gives.
C9_AutoencoderSharesWeights ==
    /\ Finished("cell27") =>
         /\ FlatLayers(autoencoder) = encoder.layers \o decoder.layers
         /\ WeightsOf(autoencoder) = WeightsOf(encoder) \o WeightsOf(decoder)
         /\ \A i \in 1..PyLen(x_test_noisy) :
              Forward(autoencoder, Sample("x_test_noisy", i)) =
                Forward(decoder, Forward(encoder, Sample("x_test_noisy", i)))
    /\ Finished("cell29") =>
         \A i \in 1..PyLen(x_test_noisy) :
             x_decoded.data[i] =
               Forward(decoder, Forward(encoder, Sample("x_test_noisy", i)))

C9_Witness ==
    /\ pc = "cell31"
    /\ weights[encoder.layers[1]] = epochs * (FullBatches + 1)
    /\ weights[decoder.layers[1]] = epochs * (FullBatches + 1)

InRange(name, a) == \A k \in 1..Len(name) : name[k] \in 0..(PyLen(a) - 1)

\* C10: every index drawn for display is a valid index of the arrays it
\* indexes (0 <= i <= len - 1), and no display step fails.
C10_DisplayIndexInRange ==
    /\ err = "none"
    /\ InRange(image_num, x_train) /\ InRange(image_num, y_train)
    /\ InRange(image_index, x_train_noisy) /\ InRange(image_index, y_train)
    /\ InRange(index, x_test_noisy)
    /\ pc = "done" => InRange(index, x_decoded)

=============================================================================
